---- MODULE Spec2Model ----
(***************************************************************************)
(* A model of tensor2tensor/rl/ppo.py: the PPO epoch driver                *)
(* (define_ppo_epoch), the minibatch step (define_ppo_step), the           *)
(* distributional value decoder (_distributional_to_value), the            *)
(* generalized advantage estimator and the discounted-reward accumulator.  *)
(*                                                                         *)
(* Tensors are modelled along the time axis only: every operation of the   *)
(* file acts elementwise on the batch axis, so one agent column stands for *)
(* each of them.  Floating-point values are modelled by integers, on which *)
(* float arithmetic is exact, plus the value NaN where the code can        *)
(* produce it.                                                             *)
(***************************************************************************)
EXTENDS Integers, Sequences, FiniteSets, TLC

VARIABLES
  \* ---- define_ppo_epoch: batching, shuffling and the tf.scan fold
  pc,                  \* position in define_ppo_epoch
  hparams,             \* epoch_length, optimization_epochs,
                       \* optimization_batch_size, effective_num_agents
  batch_size,          \* the batch_size argument
  number_of_batches,   \* local number_of_batches
  epoch_length,        \* local epoch_length
  indices_of_batches,  \* the reshaped index table, a sequence of rows
  i,                   \* the element of tf.range(number_of_batches) in the fold
  a,                   \* the tf.scan accumulator [policy, value, entropy]
  losses,              \* the losses of the minibatch step in progress
  params,              \* number of train_op updates applied to the network
  reads,               \* per step: the row read, the params version the
                       \* forward pass saw and the losses it computed
  ppo_step_rets,       \* output of tf.scan: per loss, every accumulator value
  ppo_summaries,       \* the reported losses, as fractions num/den
  \* ---- define_ppo_epoch: advantage and training target of one agent column
  tpc,                 \* position in the target computation
  reward,              \* reward[t], t = 1..T
  value,               \* the scalar value series (decoded when distributional)
  done,                \* done[t]
  gae_gamma,           \* hparams.gae_gamma
  gae_lambda,          \* hparams.gae_lambda
  distributional_size, \* the distributional_size argument
  advantage,           \* result of calculate_generalized_advantage_estimator
  discounted_reward,   \* the training target
  \* ---- define_ppo_step: the clipped surrogate of one minibatch element
  spc,                 \* position in the surrogate computation
  new_pdf,             \* probability of the action under the new policy
  old_pdf,             \* probability of the action under the old policy
  norm_advantage,      \* the normalized advantage of the element
  clipping_coef,       \* hparams.clipping_coef, a fraction num/den
  ratio,               \* new_pdf / old_pdf, a fraction
  clipped_ratio,       \* the clipped ratio, a fraction
  surrogate_objective, \* the surrogate objective, a fraction
  \* ---- _distributional_to_value and the target quantization
  dpc,                 \* position in the decoding
  size,                \* distributional_size, the number of buckets K
  value_d,             \* per bucket, exp(logit) as an integer weight
  threshold,           \* the threshold, a fraction num/den
  value_range,         \* the bucket centers, in units of subscale / 2
  probs,               \* the probabilities after thresholding, as weights
  decoded,             \* the outcome of the decoder
  quantized_dr,        \* the bucket index of a discounted-reward target
  hot_dr               \* its one-hot encoding

epochVars == <<pc, hparams, batch_size, number_of_batches, epoch_length,
               indices_of_batches, i, a, losses, params, reads,
               ppo_step_rets, ppo_summaries>>

targetVars == <<tpc, reward, value, done, gae_gamma, gae_lambda,
                distributional_size, advantage, discounted_reward>>

stepVars == <<spc, new_pdf, old_pdf, norm_advantage, clipping_coef, ratio,
              clipped_ratio, surrogate_objective>>

decodeVars == <<dpc, size, value_d, threshold, value_range, probs, decoded,
                quantized_dr, hot_dr>>

vars == <<epochVars, targetVars, stepVars, decodeVars>>

\* ---------------------------------------------------------------- bounds
MaxEpochLength == 3
MaxOptEpochs == 2
MaxOptBatch == 3
MaxAgents == 2
MaxBatch == 2
\* The longest fold explored: hyperparameters asking for more minibatch steps
\* are left out.
MaxSteps == 4

\* An optional hyperparameter: <<>> is None, <<n>> is the value n.
None == <<>>
Some(n) == <<n>>
Get(x) == x[1]

\* The losses one minibatch step can report: [policy, value, entropy].
LossOutcomes == {<<1, 0, -1>>, <<0, 1, 0>>}

\* ---------------------------------------------------------------- helpers
Min(x, y) == IF x <= y THEN x ELSE y

RECURSIVE SumSeq(_)
SumSeq(s) == IF s = <<>> THEN 0 ELSE Head(s) + SumSeq(Tail(s))

\* tf.concat(list, axis=0)
RECURSIVE Concat(_)
Concat(ss) == IF ss = <<>> THEN <<>> ELSE Head(ss) \o Concat(Tail(ss))

\* The outcomes of tf.random.shuffle(tf.range(n)): every permutation of
\* 0..n-1 (the empty one when n <= 0)
Shuffles(n) ==
  {p \in [1..n -> 0..(n - 1)] : \A x, y \in 1..n : p[x] = p[y] => x = y}

\* shuffled_indices[:n]
Truncate(s, n) == SubSeq(s, 1, Min(Len(s), n))

\* tf.reshape(s, shape=(-1, width)), defined when width divides Len(s)
CanReshape(s, width) == Len(s) % width = 0
Reshape(s, width) ==
  [r \in 1..(Len(s) \div width) |->
     [c \in 1..width |-> s[(r - 1) * width + c]]]

\* ------------------------------------------- define_ppo_epoch, lines 146-154
NumberOfBatchesBase(h) ==
  ((h.epoch_length - 1) * h.optimization_epochs) \div h.optimization_batch_size

\* The batch count with batch_size floor-divided by effective_num_agents
\* before the product is formed.
NumberOfBatchesFloorFirst(h, bs) ==
  IF h.effective_num_agents = None
    THEN NumberOfBatchesBase(h)
    ELSE NumberOfBatchesBase(h) * (bs \div Get(h.effective_num_agents))

\* lines 146-151: number_of_batches *= batch_size, then //= effective_num_agents
NumberOfBatches(h, bs) ==
  IF h.effective_num_agents = None
    THEN NumberOfBatchesBase(h)
    ELSE (NumberOfBatchesBase(h) * bs) \div Get(h.effective_num_agents)

EpochLength(h) ==
  IF h.effective_num_agents = None
    THEN h.epoch_length
    ELSE h.epoch_length \div Get(h.effective_num_agents)

\* ------------------------------------------- define_ppo_epoch, lines 157-163
\* Every table the shuffling, truncation and reshape can produce.
ShuffledIndices(h, el, nb) ==
  {Truncate(Concat(ps), nb * h.optimization_batch_size) :
     ps \in [1..h.optimization_epochs -> Shuffles(el - 1)]}

\* ---------------------------------------------------------------- epoch
\* The parts of the model a specification does not exercise stay idle.
IdleTargets ==
  /\ tpc = "idle"
  /\ reward = <<>>
  /\ value = <<>>
  /\ done = <<>>
  /\ gae_gamma = 0
  /\ gae_lambda = 0
  /\ distributional_size = 1
  /\ advantage = <<>>
  /\ discounted_reward = <<>>

IdleStep ==
  /\ spc = "idle"
  /\ new_pdf = 1
  /\ old_pdf = 1
  /\ norm_advantage = 0
  /\ clipping_coef = [num |-> 0, den |-> 1]
  /\ ratio = [num |-> 1, den |-> 1]
  /\ clipped_ratio = [num |-> 1, den |-> 1]
  /\ surrogate_objective = [num |-> 0, den |-> 1]

IdleDecode ==
  /\ dpc = "idle"
  /\ size = 1
  /\ value_d = <<>>
  /\ threshold = [num |-> 0, den |-> 1]
  /\ value_range = <<>>
  /\ probs = <<>>
  /\ decoded = [kind |-> "none", num |-> 0, den |-> 1]
  /\ quantized_dr = 0
  /\ hot_dr = <<>>

InitEpoch ==
  /\ pc = "batches"
  /\ hparams \in [epoch_length : 1..MaxEpochLength,
                  optimization_epochs : 1..MaxOptEpochs,
                  optimization_batch_size : 1..MaxOptBatch,
                  effective_num_agents :
                    {None} \cup {Some(n) : n \in 1..MaxAgents}]
  /\ batch_size \in 1..MaxBatch
  /\ NumberOfBatches(hparams, batch_size) <= MaxSteps
  /\ number_of_batches = 0
  /\ epoch_length = 0
  /\ indices_of_batches = <<>>
  /\ i = 0
  /\ a = <<0, 0, 0>>
  /\ losses = <<>>
  /\ params = 0
  /\ reads = <<>>
  /\ ppo_step_rets = <<<<>>, <<>>, <<>>>>
  /\ ppo_summaries = <<>>
  /\ IdleTargets
  /\ IdleStep
  /\ IdleDecode

\* lines 146-154: number_of_batches, epoch_length and the assert
ComputeNumberOfBatches ==
  /\ pc = "batches"
  /\ number_of_batches' = NumberOfBatches(hparams, batch_size)
  /\ epoch_length' = EpochLength(hparams)
  /\ pc' = IF number_of_batches' > 0 THEN "shuffle" ELSE "AssertionError"
  /\ UNCHANGED <<targetVars, stepVars, decodeVars>>
  /\ UNCHANGED <<hparams, batch_size, indices_of_batches, i, a, losses,
                 params, reads, ppo_step_rets, ppo_summaries>>

\* lines 157-163: shuffle, concatenate, truncate, reshape
ShuffleIndices ==
  /\ pc = "shuffle"
  /\ \E s \in ShuffledIndices(hparams, epoch_length, number_of_batches) :
       IF CanReshape(s, hparams.optimization_batch_size)
         THEN /\ indices_of_batches' =
                   Reshape(s, hparams.optimization_batch_size)
              /\ pc' = "scan"
         ELSE /\ indices_of_batches' = <<>>
              /\ pc' = "ReshapeError"
  /\ UNCHANGED <<targetVars, stepVars, decodeVars>>
  /\ UNCHANGED <<hparams, batch_size, number_of_batches, epoch_length, i, a,
                 losses, params, reads, ppo_step_rets, ppo_summaries>>

\* A fold step whose losses are returned without the control dependency on
\* train_op: nothing makes the update run before the losses are released.
StepForwardNoControlDependency ==
  /\ pc = "scan"
  /\ i < number_of_batches
  /\ IF i + 1 \in DOMAIN indices_of_batches
       THEN /\ \E l \in LossOutcomes :
                 /\ losses' = l
                 /\ reads' = Append(reads, [row |-> i, params |-> params,
                                            losses |-> l])
            /\ pc' = "release"
       ELSE /\ pc' = "IndexError"
            /\ UNCHANGED <<losses, reads>>
  /\ UNCHANGED <<targetVars, stepVars, decodeVars>>
  /\ UNCHANGED <<hparams, batch_size, number_of_batches, epoch_length,
                 indices_of_batches, i, a, params, ppo_step_rets,
                 ppo_summaries>>

\* lines 167-177 with 36-77: the fold takes element i, reads row i of the
\* table (an error when the table has no such row), gathers the minibatch
\* and runs the forward pass on the current network parameters, which gives
\* the three losses.
StepForward ==
  /\ pc = "scan"
  /\ i < number_of_batches
  /\ IF i + 1 \in DOMAIN indices_of_batches
       THEN /\ \E l \in LossOutcomes :
                 /\ losses' = l
                 /\ reads' = Append(reads, [row |-> i, params |-> params,
                                            losses |-> l])
            /\ pc' = "train"
       ELSE /\ pc' = "IndexError"
            /\ UNCHANGED <<losses, reads>>
  /\ UNCHANGED <<targetVars, stepVars, decodeVars>>
  /\ UNCHANGED <<hparams, batch_size, number_of_batches, epoch_length,
                 indices_of_batches, i, a, params, ppo_step_rets,
                 ppo_summaries>>

\* lines 78-80: train_op applies one update to the network parameters
StepTrain ==
  /\ pc = "train"
  /\ params' = params + 1
  /\ pc' = "release"
  /\ UNCHANGED <<targetVars, stepVars, decodeVars>>
  /\ UNCHANGED <<hparams, batch_size, number_of_batches, epoch_length,
                 indices_of_batches, i, a, losses, reads, ppo_step_rets,
                 ppo_summaries>>

\* lines 82-83 and 144, 168: under the control dependency on train_op the
\* losses are returned and added elementwise to the accumulator; tf.scan
\* records the new accumulator.
StepRelease ==
  /\ pc = "release"
  /\ a' = [k \in 1..3 |-> a[k] + losses[k]]
  /\ ppo_step_rets' = [k \in 1..3 |-> Append(ppo_step_rets[k], a'[k])]
  /\ losses' = <<>>
  /\ i' = i + 1
  /\ pc' = "scan"
  /\ UNCHANGED <<targetVars, stepVars, decodeVars>>
  /\ UNCHANGED <<hparams, batch_size, number_of_batches, epoch_length,
                 indices_of_batches, params, reads, ppo_summaries>>

\* lines 179-180: tf.reduce_mean(ret) / number_of_batches, as a fraction
Summarize ==
  /\ pc = "scan"
  /\ i = number_of_batches
  /\ ppo_summaries' =
       [k \in 1..3 |->
          [num |-> SumSeq(ppo_step_rets[k]),
           den |-> Len(ppo_step_rets[k]) * number_of_batches]]
  /\ pc' = "done"
  /\ UNCHANGED <<targetVars, stepVars, decodeVars>>
  /\ UNCHANGED <<hparams, batch_size, number_of_batches, epoch_length,
                 indices_of_batches, i, a, losses, params, reads,
                 ppo_step_rets>>

NextEpoch ==
  \/ ComputeNumberOfBatches
  \/ ShuffleIndices
  \/ StepForward
  \/ StepTrain
  \/ StepRelease
  \/ Summarize

SpecEpoch == InitEpoch /\ [][NextEpoch]_vars

\* ------------------------------------------------------------ epoch claims
EnaSet == hparams.effective_num_agents /= None
BatchesComputed == pc /= "batches"
TableBuilt == pc \in {"scan", "train", "release", "done", "IndexError"}

\* The sum of loss k over the minibatch steps that ran.
StepLossTotal(k) == SumSeq([j \in DOMAIN reads |-> reads[j].losses[k]])

\* C1: each of the three reported losses equals the sum of that loss over all
\* minibatch steps divided by number_of_batches (num/den = total/nb).
C1_EpochMean ==
  pc = "done" =>
    \A k \in 1..3 :
      ppo_summaries[k].num * number_of_batches
        = StepLossTotal(k) * ppo_summaries[k].den

\* C2: once the number_of_batches > 0 check has passed, the index table is
\* built with shape exactly [number_of_batches, optimization_batch_size],
\* every entry lies in [0, epoch_length-1), and every row the fold reads
\* exists.
C2_IndexTable ==
  /\ pc /= "ReshapeError"
  /\ pc /= "IndexError"
  /\ TableBuilt =>
       /\ Len(indices_of_batches) = number_of_batches
       /\ \A r \in DOMAIN indices_of_batches :
            /\ Len(indices_of_batches[r]) = hparams.optimization_batch_size
            /\ \A c \in DOMAIN indices_of_batches[r] :
                 indices_of_batches[r][c] \in 0..(epoch_length - 2)
       /\ \A r \in 0..(number_of_batches - 1) :
            r + 1 \in DOMAIN indices_of_batches

C8_FloorFirst ==
  (BatchesComputed /\ EnaSet) =>
    /\ number_of_batches =
         (((hparams.epoch_length - 1) * hparams.optimization_epochs)
            \div hparams.optimization_batch_size)
         * (batch_size \div Get(hparams.effective_num_agents))
    /\ epoch_length =
         hparams.epoch_length \div Get(hparams.effective_num_agents)

\* C8 amended: with effective_num_agents set, number_of_batches equals
\* ((((epoch_length-1) * optimization_epochs) // optimization_batch_size)
\* * batch_size) // effective_num_agents: the product is formed first and
\* floored once; the epoch_length of the permutations is
\* epoch_length // effective_num_agents.
C8_MultiplyThenFloor ==
  (BatchesComputed /\ EnaSet) =>
    /\ number_of_batches =
         ((((hparams.epoch_length - 1) * hparams.optimization_epochs)
             \div hparams.optimization_batch_size) * batch_size)
         \div Get(hparams.effective_num_agents)
    /\ epoch_length =
         hparams.epoch_length \div Get(hparams.effective_num_agents)

\* C8 witness: effective_num_agents is set and does not divide batch_size,
\* and the batches were computed and passed the check.
C8_Witness ==
  /\ BatchesComputed
  /\ EnaSet
  /\ batch_size % Get(hparams.effective_num_agents) /= 0
  /\ number_of_batches > 0

\* ================================================= advantage and targets
MaxTime == 3

RewardVals == {0, 1}
ValueVals == {0, 1}
GammaVals == {1, 2}
LambdaVals == {1, 3}

IdleEpoch ==
  /\ pc = "idle"
  /\ hparams = [epoch_length |-> 1, optimization_epochs |-> 1,
                optimization_batch_size |-> 1, effective_num_agents |-> None]
  /\ batch_size = 1
  /\ number_of_batches = 0
  /\ epoch_length = 0
  /\ indices_of_batches = <<>>
  /\ i = 0
  /\ a = <<0, 0, 0>>
  /\ losses = <<>>
  /\ params = 0
  /\ reads = <<>>
  /\ ppo_step_rets = <<<<>>, <<>>, <<>>>>
  /\ ppo_summaries = <<>>

\* tf.reverse(s, [0])
Reverse(s) == [k \in 1..Len(s) |-> s[Len(s) + 1 - k]]

\* s[1:] and s[:-1]
DropFirst(s) == SubSeq(s, 2, Len(s))
DropLast(s) == SubSeq(s, 1, Len(s) - 1)

\* 1 - tf.cast(done, tf.float32), elementwise
NotDone(d) == [k \in 1..Len(d) |-> IF d[k] THEN 0 ELSE 1]

\* tf.scan(lambda agg, cur: cur[0] + cur[1] * gae_gamma * gae_lambda * agg,
\*         [deltas, not_dones], initializer): every accumulator value
RECURSIVE GaeScan(_, _, _, _, _)
GaeScan(deltas, not_dones, agg, g, l) ==
  IF deltas = <<>>
    THEN <<>>
    ELSE LET new == Head(deltas) + Head(not_dones) * g * l * agg
         IN  <<new>> \o GaeScan(Tail(deltas), Tail(not_dones), new, g, l)

\* tf.check_numerics: an error on NaN or Inf.  Every value of the model is a
\* finite integer, so the tensor is passed through.
CheckNumerics(t) == t

\* The estimator with the done flags not shifted: next_not_done taken from
\* done[:-1] instead of done[1:].
GaeDoneNotShifted(rw, v, d, g, l) ==
  LET next_value == DropFirst(v)
      next_not_done == NotDone(DropLast(d))
      delta == [t \in 1..(Len(rw) - 1) |->
                  rw[t] + g * next_value[t] * next_not_done[t] - v[t]]
  IN  CheckNumerics(Reverse(
        GaeScan(Reverse(delta), Reverse(next_not_done), 0, g, l)))

\* calculate_generalized_advantage_estimator, lines 196-217
CalculateGeneralizedAdvantageEstimator(rw, v, d, g, l) ==
  LET next_value == DropFirst(v)
      next_not_done == NotDone(DropFirst(d))
      delta == [t \in 1..(Len(rw) - 1) |->
                  rw[t] + g * next_value[t] * next_not_done[t] - v[t]]
  IN  CheckNumerics(Reverse(
        GaeScan(Reverse(delta), Reverse(next_not_done), 0, g, l)))

\* tf.scan(lambda agg, cur: cur + gae_gamma * agg, elems, initializer,
\*         reverse=True): the elements are consumed last to first and each
\* accumulator value is stored at its element's position.
RECURSIVE DiscountScan(_, _, _)
DiscountScan(elems, agg, g) ==
  IF elems = <<>>
    THEN <<>>
    ELSE LET new == elems[Len(elems)] + g * agg
         IN  DiscountScan(DropLast(elems), new, g) \o <<new>>

\* The accumulator run over reward[:-1] only.
DiscountedRewardsShort(rw, d, g, end_values) ==
  LET not_done == NotDone(d)
      end == end_values * not_done[Len(not_done)]
  IN  CheckNumerics(DiscountScan(
        [t \in 1..(Len(rw) - 1) |-> rw[t] * not_done[t]], end, g))

\* discounted_rewards, lines 220-231
DiscountedRewards(rw, d, g, end_values) ==
  LET not_done == NotDone(d)
      end == end_values * not_done[Len(not_done)]
  IN  CheckNumerics(DiscountScan(
        [t \in 1..Len(rw) |-> rw[t] * not_done[t]], end, g))

\* define_ppo_epoch, lines 133-137: the training target.  plain_value is
\* value itself (line 125) on every path on which the decoded value is finite.
TrainingTarget(adv, rw, v, d, g, dsize) ==
  IF dsize > 1
    THEN DiscountedRewards(rw, d, g, v[Len(v)])
    ELSE [t \in 1..Len(adv) |-> adv[t] + DropLast(v)[t]]

InitTargets ==
  /\ IdleEpoch
  /\ IdleStep
  /\ IdleDecode
  /\ tpc = "advantage"
  /\ \E T \in 2..MaxTime :
       /\ reward \in [1..T -> RewardVals]
       /\ value \in [1..T -> ValueVals]
       /\ done \in [1..T -> BOOLEAN]
  /\ gae_gamma \in GammaVals
  /\ gae_lambda \in LambdaVals
  /\ distributional_size \in {1, 2}
  /\ advantage = <<>>
  /\ discounted_reward = <<>>

\* define_ppo_epoch, lines 130-131
ComputeAdvantage ==
  /\ tpc = "advantage"
  /\ advantage' = CalculateGeneralizedAdvantageEstimator(
                    reward, value, done, gae_gamma, gae_lambda)
  /\ tpc' = "target"
  /\ UNCHANGED <<reward, value, done, gae_gamma, gae_lambda,
                 distributional_size, discounted_reward>>
  /\ UNCHANGED <<epochVars, stepVars, decodeVars>>

\* define_ppo_epoch, lines 133-137
ComputeTarget ==
  /\ tpc = "target"
  /\ discounted_reward' = TrainingTarget(advantage, reward, value, done,
                                         gae_gamma, distributional_size)
  /\ tpc' = "done"
  /\ UNCHANGED <<reward, value, done, gae_gamma, gae_lambda,
                 distributional_size, advantage>>
  /\ UNCHANGED <<epochVars, stepVars, decodeVars>>

NextTargets ==
  \/ ComputeAdvantage
  \/ ComputeTarget

SpecTargets == InitTargets /\ [][NextTargets]_vars

\* ---------------------------------------------------------- target claims
\* The trajectory's time length T (hparams.epoch_length).
TimeLength == Len(reward)

\* C4 as stated: the advantage and the discounted-reward target both have
\* time length T-1, in scalar and in distributional mode.
C4_BothOneShorter ==
  tpc = "done" =>
    /\ Len(advantage) = TimeLength - 1
    /\ Len(discounted_reward) = TimeLength - 1

\* C4 amended: the advantage has time length T-1 in both modes; the
\* discounted-reward target has time length T-1 in scalar mode and T in
\* distributional mode.
C4_TargetLengths ==
  tpc = "done" =>
    /\ Len(advantage) = TimeLength - 1
    /\ Len(discounted_reward) =
         IF distributional_size > 1 THEN TimeLength ELSE TimeLength - 1

\* C4 witness: the targets of a distributional-mode epoch were computed.
C4_Witness ==
  tpc = "done" /\ distributional_size > 1 /\ Len(discounted_reward) >= 2

\* The trajectories that differ from the current one in one input at or
\* after index t: a reward or value at an index >= t, or a done flag at an
\* index > t.
OneChangeFrom(t) ==
  {[rw |-> [reward EXCEPT ![k] = x], v |-> value, d |-> done] :
     k \in t..TimeLength, x \in RewardVals}
  \cup
  {[rw |-> reward, v |-> [value EXCEPT ![k] = x], d |-> done] :
     k \in t..TimeLength, x \in ValueVals}
  \cup
  {[rw |-> reward, v |-> value, d |-> [done EXCEPT ![k] = x]] :
     k \in (t + 1)..TimeLength, x \in BOOLEAN}

\* C6: for every time index t (here counted from 1, t in 2..T) with done[t]
\* true, the advantage at t-1 equals reward[t-1] - value[t-1], and the
\* advantage at every index s < t is unchanged by any change of a reward or
\* value at an index >= t (changes of one input at a time compose to any
\* change, every trajectory being a state of this specification).
C6_NoPropagationAcrossDone ==
  tpc /= "advantage" =>
    \A t \in 2..TimeLength :
      done[t] =>
        /\ advantage[t - 1] = reward[t - 1] - value[t - 1]
        /\ \A alt \in OneChangeFrom(t) :
             \A s \in 1..(t - 1) :
               CalculateGeneralizedAdvantageEstimator(
                 alt.rw, alt.v, alt.d, gae_gamma, gae_lambda)[s]
                 = advantage[s]

\* C6 witness: the advantage was computed for a trajectory with an episode
\* boundary in its middle, a nonzero value at the boundary, and a nonzero
\* reward and value after it.
C6_Witness ==
  /\ tpc /= "advantage"
  /\ TimeLength >= 3
  /\ done[2]
  /\ value[2] /= 0
  /\ reward[3] /= 0
  /\ value[3] /= 0
  /\ ~done[3]

\* The trajectory with the rewards after index t set to zero.
RewardsZeroedAfter(t) == [k \in 1..TimeLength |-> IF k > t THEN 0 ELSE reward[k]]

\* C9: for every time index t with done[t] true, the return at every index
\* s <= t contains no contribution from the rewards at indices > t nor from
\* end_values: it equals the return computed with those rewards and
\* end_values set to zero.
C9_StopsAtBoundaries ==
  (tpc = "done" /\ distributional_size > 1) =>
    \A t \in 1..TimeLength :
      done[t] =>
        \A s \in 1..t :
          discounted_reward[s]
            = DiscountedRewards(RewardsZeroedAfter(t), done, gae_gamma, 0)[s]

\* ================================================== the clipped surrogate
MaxPdf == 4

AdvantageVals == {-2, -1, 1, 2}
ClipCoefs == {[num |-> 1, den |-> 5], [num |-> 1, den |-> 2]}

\* Fractions num/den with den > 0 stand for the real values.
FracLess(x, y) == x.num * y.den < y.num * x.den
FracEq(x, y) == x.num * y.den = y.num * x.den
FracMin(x, y) == IF FracLess(y, x) THEN y ELSE x
FracMax(x, y) == IF FracLess(x, y) THEN y ELSE x
FracTimes(x, n) == [num |-> x.num * n, den |-> x.den]

\* 1 - clipping_coef and 1 + clipping_coef
ClipLow(c) == [num |-> c.den - c.num, den |-> c.den]
ClipHigh(c) == [num |-> c.den + c.num, den |-> c.den]

\* tf.clip_by_value(x, lo, hi): maximum(minimum(x, hi), lo)
ClipByValue(x, lo, hi) == FracMax(FracMin(x, hi), lo)

\* The surrogate with the maximum of the two terms in place of the minimum.
SurrogateMaximum(clipped, r, adv) ==
  FracMax(FracTimes(clipped, adv), FracTimes(r, adv))

\* define_ppo_step, lines 53-54
SurrogateObjective(clipped, r, adv) ==
  FracMin(FracTimes(clipped, adv), FracTimes(r, adv))

InitStep ==
  /\ IdleEpoch
  /\ IdleTargets
  /\ IdleDecode
  /\ spc = "ratio"
  /\ new_pdf \in 0..MaxPdf
  /\ old_pdf \in 1..MaxPdf
  /\ norm_advantage \in AdvantageVals
  /\ clipping_coef \in ClipCoefs
  /\ ratio = [num |-> 1, den |-> 1]
  /\ clipped_ratio = [num |-> 1, den |-> 1]
  /\ surrogate_objective = [num |-> 0, den |-> 1]

\* define_ppo_step, lines 49-54
ComputeSurrogate ==
  /\ spc = "ratio"
  /\ ratio' = [num |-> new_pdf, den |-> old_pdf]
  /\ clipped_ratio' = ClipByValue(ratio', ClipLow(clipping_coef),
                                  ClipHigh(clipping_coef))
  /\ surrogate_objective' =
       SurrogateObjective(clipped_ratio', ratio', norm_advantage)
  /\ spc' = "done"
  /\ UNCHANGED <<new_pdf, old_pdf, norm_advantage, clipping_coef>>
  /\ UNCHANGED <<epochVars, targetVars, decodeVars>>

NextStep == ComputeSurrogate

SpecStep == InitStep /\ [][NextStep]_vars

\* -------------------------------------------------------- surrogate claims
RatioAbove == FracLess(ClipHigh(clipping_coef), ratio)
RatioBelow == FracLess(ratio, ClipLow(clipping_coef))
ClippedTerm == FracTimes(clipped_ratio, norm_advantage)
RawTerm == FracTimes(ratio, norm_advantage)
SurrogateIsClipped ==
  FracEq(surrogate_objective, ClippedTerm)
    /\ ~FracEq(surrogate_objective, RawTerm)
SurrogateIsRaw ==
  FracEq(surrogate_objective, RawTerm)
    /\ ~FracEq(surrogate_objective, ClippedTerm)

\* C7 as stated: for every ratio outside [1-clip, 1+clip], above or below,
\* a positive advantage gives the clipped term and not the raw term, and a
\* negative advantage gives the raw term and not the clipped term.
C7_ClippedWheneverOutside ==
  (spc = "done" /\ (RatioAbove \/ RatioBelow)) =>
    /\ norm_advantage > 0 => SurrogateIsClipped
    /\ norm_advantage < 0 => SurrogateIsRaw

\* C7 amended: for a ratio above 1+clip, a positive advantage gives the
\* clipped term and not the raw term, and a negative advantage gives the raw
\* term and not the clipped term; for a ratio below 1-clip it is the other
\* way round: a positive advantage gives the raw term and a negative
\* advantage gives the clipped term.
C7_PessimisticSurrogate ==
  spc = "done" =>
    /\ RatioAbove =>
         /\ norm_advantage > 0 => SurrogateIsClipped
         /\ norm_advantage < 0 => SurrogateIsRaw
    /\ RatioBelow =>
         /\ norm_advantage > 0 => SurrogateIsRaw
         /\ norm_advantage < 0 => SurrogateIsClipped

\* C7 witness: the surrogate was computed for a ratio below 1-clip with a
\* positive advantage.
C7_Witness == spc = "done" /\ RatioBelow /\ norm_advantage > 0

\* ============================== distributional decoding and quantization
MaxSize == 4

WeightVals == {1, 2}
ThresholdVals == {[num |-> 0, den |-> 1], [num |-> 1, den |-> 2],
                  [num |-> 1, den |-> 1], [num |-> 3, den |-> 2]}
TargetVals == -5..5

\* (tf.to_float(tf.range(-half, half)) + 0.5) * subscale, lines 88-89, in
\* units of subscale / 2: entry j is 2 * (-half + j - 1) + 1
ValueRange(sz) ==
  LET half == sz \div 2
  IN  [j \in 1..(2 * half) |-> 2 * (j - 1 - half) + 1]

\* tf.cumsum(probs, axis=-1)
Cumsum(w) == [k \in 1..Len(w) |-> SumSeq(SubSeq(w, 1, k))]

\* tf.where(accumulated_probs < threshold, zeros, probs), lines 97-99; the
\* probabilities are the weights w over their sum.
Thresholded(w, th) ==
  [k \in 1..Len(w) |->
     IF Cumsum(w)[k] * th.den < th.num * SumSeq(w) THEN 0 ELSE w[k]]

\* tf.reduce_sum(probs * value_range, axis=-1) for probabilities w / total;
\* the product needs both last dimensions equal (neither is 1 here).
Expectation(w, total, vr) ==
  IF Len(w) /= Len(vr)
    THEN [kind |-> "ShapeError", num |-> 0, den |-> 1]
    ELSE IF total = 0
      THEN [kind |-> "NaN", num |-> 0, den |-> 1]
      ELSE [kind |-> "value",
            num |-> SumSeq([k \in 1..Len(w) |-> w[k] * vr[k]]),
            den |-> total]

\* The probabilities the expectation is taken of, lines 90-99
FilteredProbs(w, th) == IF th.num = 0 THEN w ELSE Thresholded(w, th)

\* _distributional_to_value, lines 86-101; line 100 divides by the sum of
\* the filtered probabilities, 0/0 being NaN
DistributionalToValue(w, sz, th) ==
  Expectation(FilteredProbs(w, th), SumSeq(FilteredProbs(w, th)),
              ValueRange(sz))

\* define_ppo_step, lines 61-65: floor((discounted_reward + half) / subscale)
\* with half = (distributional_size // 2) * subscale and the target dr in
\* units of subscale / 2
QuantizedDr(dr, sz) == (dr + 2 * (sz \div 2)) \div 2

\* tf.one_hot(index, depth), line 66: all zero for an index out of range
OneHot(index, depth) == [k \in 1..depth |-> IF k - 1 = index THEN 1 ELSE 0]

InitDecode ==
  /\ IdleEpoch
  /\ IdleTargets
  /\ IdleStep
  /\ dpc = "decode"
  /\ size \in 2..MaxSize
  /\ value_d \in [1..size -> WeightVals]
  /\ threshold \in ThresholdVals
  /\ value_range = <<>>
  /\ probs = <<>>
  /\ decoded = [kind |-> "none", num |-> 0, den |-> 1]
  /\ quantized_dr = 0
  /\ hot_dr = <<>>

\* define_ppo_epoch, lines 121-124: the value series is decoded
DecodeValue ==
  /\ dpc = "decode"
  /\ value_range' = ValueRange(size)
  /\ probs' = FilteredProbs(value_d, threshold)
  /\ decoded' = DistributionalToValue(value_d, size, threshold)
  /\ dpc' = "decoded"
  /\ UNCHANGED <<size, value_d, threshold, quantized_dr, hot_dr>>
  /\ UNCHANGED <<epochVars, targetVars, stepVars>>

\* define_ppo_step, lines 61-66: a target is quantized to its bucket
QuantizeTarget ==
  /\ dpc = "decoded"
  /\ decoded.kind = "value"
  /\ \E dr \in TargetVals :
       /\ quantized_dr' = QuantizedDr(dr, size)
       /\ hot_dr' = OneHot(quantized_dr', size)
  /\ dpc' = "quantized"
  /\ UNCHANGED <<size, value_d, threshold, value_range, probs, decoded>>
  /\ UNCHANGED <<epochVars, targetVars, stepVars>>

NextDecode ==
  \/ DecodeValue
  \/ QuantizeTarget

SpecDecode == InitDecode /\ [][NextDecode]_vars

\* ----------------------------------------------------------- decode claims
\* C5: with threshold > 0, whenever the thresholding zeroes the probability
\* of every bucket, the decoder ends in a NumericError instead of returning
\* the result of a division by a zero sum (stated for the sizes whose bucket
\* centers match the distribution).
C5_ZeroMassIsNumericError ==
  (/\ dpc /= "decode"
   /\ threshold.num > 0
   /\ Len(value_range) = size
   /\ \A k \in DOMAIN probs : probs[k] = 0)
    => decoded.kind = "NumericError"

\* C10: for every distributional size K > 1, even or odd, and every bucket
\* index i in [0, K), the decoder has the bucket center (i - K/2 + 0.5) *
\* subscale for bucket i (2i - K + 1 in units of subscale / 2), and the
\* target quantization of define_ppo_step maps that center back to i.
C10_CentersRoundTrip ==
  dpc /= "decode" =>
    \A b \in 0..(size - 1) :
      /\ b + 1 \in DOMAIN value_range
      /\ value_range[b + 1] = 2 * b - size + 1
      /\ QuantizedDr(value_range[b + 1], size) = b

====
